---- MODULE Spec2Model ----
(***************************************************************************)
(* Practice test generator: the HTTP server (src/src/server/index.ts), the *)
(* question generator (src/src/services/questionGenerator.ts) and the file *)
(* storage (src/src/services/testStorage.ts) as a state machine.           *)
(*                                                                         *)
(* JavaScript strings are sequences of UTF-16 code units; undefined and    *)
(* null are two reserved sequences no string can equal.                    *)
(***************************************************************************)
EXTENDS Integers, Sequences, FiniteSets, TLC

VARIABLES
    clock,      \* Date.now()
    tests,      \* data/tests/<id>.json: test id -> file content
    sessions,   \* data/tests/sessions/<testId>-<ms>.json: key -> file content
    req,        \* the requests in flight, one record per slot
    genLog,     \* ids of the tests returned by completed generateTest calls
    subLog,     \* sessionIds returned by completed submit calls
    resp,       \* the response the last step sent, if it sent one
    env,        \* what the run draws from: the request slots, the replies, the budgets
    sc          \* calculateScore applied to drawn inputs: input and result

vars == <<clock, tests, sessions, req, genLog, subLog, resp, env, sc>>

-----------------------------------------------------------------------------
(* JavaScript values *)

Undefined == <<-1>>
Null == <<-2>>
\* an array-valued property that is undefined (no parsed array holds undefined)
UndefinedArray == <<Undefined>>
NullText == <<110, 117, 108, 108>>      \* String(null) = "null"
Comma == 44
NaN == 0 - 1                            \* 0 / 0; no score is negative

SA == <<97>>
SB == <<98>>
SC == <<99>>
SD == <<100>>
SAB == <<97, 44, 98>>                   \* the one string "a,b"

Range(s) == {s[i] : i \in DOMAIN s}

Front(s) == SubSeq(s, 1, Len(s) - 1)

Last(s) == s[Len(s)]

\* a < b by UTF-16 code units, as the default comparison of Array.prototype.sort
RECURSIVE LexLess(_, _)
LexLess(a, b) ==
    IF b = <<>> THEN FALSE
    ELSE IF a = <<>> THEN TRUE
    ELSE IF a[1] # b[1] THEN a[1] < b[1]
    ELSE LexLess(Tail(a), Tail(b))

\* the string sort() compares an element by
SortKey(v) == IF v = Null THEN NullText ELSE v

\* sort() puts undefined last and orders the rest by their strings
SortsAfter(y, x) ==
    IF y = Undefined THEN x # Undefined
    ELSE IF x = Undefined THEN FALSE
    ELSE LexLess(SortKey(x), SortKey(y))

\* x placed into the sorted s, after every element that does not sort after it
RECURSIVE SortInsert(_, _)
SortInsert(s, x) ==
    IF s = <<>> THEN <<x>>
    ELSE IF SortsAfter(s[1], x) THEN <<x>> \o s
    ELSE <<s[1]>> \o SortInsert(Tail(s), x)

\* [...list].sort(): a stable sort of a copy
RECURSIVE JsSort(_)
JsSort(s) == IF s = <<>> THEN <<>> ELSE SortInsert(JsSort(Front(s)), Last(s))

\* what join() writes for one element: nothing for undefined and null
JoinText(v) == IF v \in {Undefined, Null} THEN <<>> ELSE v

\* list.join(',')
RECURSIVE JsJoin(_)
JsJoin(s) ==
    IF s = <<>> THEN <<>>
    ELSE IF Len(s) = 1 THEN JoinText(s[1])
    ELSE JoinText(s[1]) \o <<Comma>> \o JsJoin(Tail(s))

-----------------------------------------------------------------------------
(* APIRoutes.calculateScore *)

\* answers[question.id] || []
UserAnswersOf(answers, qid) ==
    IF qid \in DOMAIN answers THEN answers[qid] ELSE <<>>

\* userSorted === correctSorted, both sorted and joined with ','
IsCorrect(userAnswers, correctAnswers) ==
    JsJoin(JsSort(userAnswers)) = JsJoin(JsSort(correctAnswers))

\* the pairs (correct, total) up to 100 questions whose double (correct / total) * 100
\* lies just below the half it equals exactly, so that Math.round goes down
RoundsDown == {<<23, 40>>, <<46, 80>>}

\* Math.round((correct / total) * 100)
MathRoundPercent(correct, total) ==
    IF total = 0 THEN NaN
    ELSE IF <<correct, total>> \in RoundsDown THEN (100 * correct) \div total
    ELSE (200 * correct + total) \div (2 * total)

ScoreDetail(question, answers) ==
    [questionId |-> question.id,
     correct |-> IsCorrect(UserAnswersOf(answers, question.id), question.correctAnswers),
     userAnswers |-> UserAnswersOf(answers, question.id),
     correctAnswers |-> question.correctAnswers]

\* a scorer that gives a detail entry for the answered questions only
calculateScoreOfAnswered(test, answers) ==
    LET answered == SelectSeq(test.questions, LAMBDA q : q.id \in DOMAIN answers)
        details == [i \in DOMAIN answered |-> ScoreDetail(answered[i], answers)]
        correct == Cardinality({i \in DOMAIN details : details[i].correct})
        total == Len(test.questions)
    IN  [score |-> MathRoundPercent(correct, total),
         total |-> total,
         correct |-> correct,
         incorrect |-> total - correct,
         details |-> details]

calculateScore(test, answers) ==
    LET details == [i \in DOMAIN test.questions |-> ScoreDetail(test.questions[i], answers)]
        correct == Cardinality({i \in DOMAIN details : details[i].correct})
        total == Len(test.questions)
    IN  [score |-> MathRoundPercent(correct, total),
         total |-> total,
         correct |-> correct,
         incorrect |-> total - correct,
         details |-> details]

-----------------------------------------------------------------------------
(* The completion reply and its parsing (QuestionGenerator).               *)
(* A reply is a sequence of tokens: "prose" (text with no bracket), "lb"   *)
(* and "rb" (a bracket of its own), "rec" (one JSON object; its options    *)
(* array, and its correctAnswers array if it has one, carry brackets).     *)

NoRecord ==
    [question |-> <<>>, hasOptions |-> FALSE, options |-> <<>>, correctAnswer |-> 0 - 1,
     hasCorrectAnswers |-> FALSE, correctAnswers |-> <<>>, explanation |-> <<>>]

Prose == [k |-> "prose", q |-> NoRecord]
LB == [k |-> "lb", q |-> NoRecord]
RB == [k |-> "rb", q |-> NoRecord]
Rec(q) == [k |-> "rec", q |-> q]

HasOpen(t) == t.k = "lb" \/ (t.k = "rec" /\ (t.q.hasOptions \/ t.q.hasCorrectAnswers))
HasClose(t) == t.k = "rb" \/ (t.k = "rec" /\ (t.q.hasOptions \/ t.q.hasCorrectAnswers))

Min(S) == CHOOSE x \in S : \A y \in S : x <= y
Max(S) == CHOOSE x \in S : \A y \in S : x >= y

Thrown(msg) == [ok |-> FALSE, error |-> msg, value |-> <<>>]
Returned(v) == [ok |-> TRUE, error |-> "", value |-> v]

\* an element of a parsed array that is itself an array: it has no property
NestedArray == NoRecord

\* JSON.parse of the text between the brackets of an array, read at the given depth
\* of nested arrays: the elements of the outer array, or a SyntaxError
RECURSIVE Elements(_, _)
Elements(ts, depth) ==
    IF ts = <<>> THEN (IF depth = 0 THEN Returned(<<>>) ELSE Thrown("SyntaxError"))
    ELSE LET t == Head(ts)
             rest == Elements(Tail(ts), IF t.k = "lb" THEN depth + 1
                                        ELSE IF t.k = "rb" THEN depth - 1 ELSE depth)
             here == IF t.k = "rec" THEN <<t.q>> ELSE <<NestedArray>>
         IN  IF t.k = "prose" \/ (t.k = "rb" /\ depth = 0) THEN Thrown("SyntaxError")
             ELSE IF ~rest.ok THEN rest
             ELSE IF depth = 0 /\ t.k # "rb" THEN Returned(here \o rest.value)
             ELSE rest

\* content.match(/\[[\s\S]*\]/) and JSON.parse(jsonMatch[0]): the match runs from the
\* first '[' of the reply to its last ']'
ParseReply(content) ==
    LET opens == {i \in DOMAIN content : HasOpen(content[i])}
        closes == {i \in DOMAIN content : HasClose(content[i])}
    IN  IF content = <<>> THEN Thrown("No response from OpenAI")
        ELSE IF opens = {} \/ \A j \in closes : j < Min(opens)
            THEN Thrown("Invalid JSON response from OpenAI")
        ELSE LET first == Min(opens)
                 last == Max(closes)
                 inner == SubSeq(content, first + 1, last - 1)
             IN  IF first < last /\ content[first].k = "lb" /\ content[last].k = "rb"
                 THEN Elements(inner, 0)
                 ELSE IF first = last /\ content[first].q.hasOptions # content[first].q.hasCorrectAnswers
                 \* the match is the one array inside a lone object: its elements are
                 \* strings or numbers, no records, and q.options of one is undefined
                 THEN LET q == content[first].q
                          arr == IF q.hasOptions THEN q.options ELSE q.correctAnswers
                      IN  IF arr = <<>> THEN Returned(<<>>) ELSE Thrown("TypeError")
                 ELSE Thrown("SyntaxError")

\* options[idx]: undefined when idx is no index of the array
OptionAt(options, idx) ==
    IF idx \in 0 .. (Len(options) - 1) THEN options[idx + 1] ELSE Undefined

QuestionId(prefix, now, index) == [prefix |-> prefix, ts |-> now, index |-> index]

\* parsed.map((q, index) => ({ id: `mc-${Date.now()}-${index}`, ... }))
MapMultipleChoice(parsed, now) ==
    IF \E i \in DOMAIN parsed : ~parsed[i].hasOptions THEN Thrown("TypeError")
    ELSE Returned([i \in DOMAIN parsed |->
            [id |-> QuestionId("mc", now, i - 1),
             type |-> "multiple-choice",
             question |-> parsed[i].question,
             options |-> parsed[i].options,
             correctAnswers |-> <<OptionAt(parsed[i].options, parsed[i].correctAnswer)>>,
             explanation |-> parsed[i].explanation]])

\* parsed.map((q, index) => ({ id: `ms-${Date.now()}-${index}`, ... }))
MapMultipleSelect(parsed, now) ==
    IF \E i \in DOMAIN parsed :
          \/ ~parsed[i].hasCorrectAnswers
          \/ (~parsed[i].hasOptions /\ parsed[i].correctAnswers # <<>>)
    THEN Thrown("TypeError")
    ELSE Returned([i \in DOMAIN parsed |->
            [id |-> QuestionId("ms", now, i - 1),
             type |-> "multiple-select",
             question |-> parsed[i].question,
             options |-> IF parsed[i].hasOptions THEN parsed[i].options ELSE UndefinedArray,
             correctAnswers |->
                 [k \in DOMAIN parsed[i].correctAnswers |->
                     OptionAt(parsed[i].options, parsed[i].correctAnswers[k])],
             explanation |-> parsed[i].explanation]])

\* catch (error) { throw new Error(`Failed to generate questions: ${error.message}`) }
Wrapped(r) == IF r.ok THEN r ELSE [r EXCEPT !.error = "Failed to generate questions: " \o r.error]

\* the reply of one completion call: the call itself fails, or it returns content
CallFailed == [failed |-> TRUE, content |-> <<>>]
Content(c) == [failed |-> FALSE, content |-> c]

\* the try block of generateMultipleChoiceQuestions: what it returns or what is thrown
\* in it
TryMultipleChoice(reply, now) ==
    IF reply.failed THEN Thrown("request failed")
    ELSE LET parsed == ParseReply(reply.content)
         IN  IF parsed.ok THEN MapMultipleChoice(parsed.value, now) ELSE parsed

\* the try block of generateMultipleSelectQuestions
TryMultipleSelect(reply, now) ==
    IF reply.failed THEN Thrown("request failed")
    ELSE LET parsed == ParseReply(reply.content)
         IN  IF parsed.ok THEN MapMultipleSelect(parsed.value, now) ELSE parsed

generateMultipleChoiceQuestions(reply, now) == Wrapped(TryMultipleChoice(reply, now))

generateMultipleSelectQuestions(reply, now) == Wrapped(TryMultipleSelect(reply, now))

\* a split that rounds the single-answer share up
multipleChoiceCountUp(questionCount) == (6 * questionCount + 9) \div 10

\* Math.floor(questionCount * 0.6) for the whole counts the model draws
multipleChoiceCount(questionCount) == (6 * questionCount) \div 10
multipleSelectCount(questionCount) == questionCount - multipleChoiceCount(questionCount)

\* an exchange that writes one of the two positions only
SwapOneWay(s, i, j) == [s EXCEPT ![i] = s[j]]

Swap(s, i, j) == [s EXCEPT ![i] = s[j], ![j] = s[i]]

\* the loop of shuffleArray from index i down (1-based), js[i] being
\* Math.floor(Math.random() * (i + 1)) of that round
RECURSIVE ShuffleFrom(_, _, _)
ShuffleFrom(s, i, js) ==
    IF i <= 1 THEN s ELSE ShuffleFrom(Swap(s, i, js[i]), i - 1, js)

\* the random draws one shuffle of n elements can make
ShuffleDraws(n) == {js \in [2 .. n -> 1 .. n] : \A i \in 2 .. n : js[i] <= i}

shuffleArray(array, js) == ShuffleFrom(array, Len(array), js)

-----------------------------------------------------------------------------
(* JSON.stringify / JSON.parse of the documents (TestStorage, sendJSON) *)

NullNumber == 0 - 2

\* an array element that is undefined is written as null
JsonArray(list) == [i \in DOMAIN list |-> IF list[i] = Undefined THEN Null ELSE list[i]]

\* a property whose value is undefined is left out
JsonQuestion(q) ==
    LET j == [q EXCEPT !.correctAnswers = JsonArray(q.correctAnswers)]
    IN  IF q.options = UndefinedArray THEN [f \in DOMAIN j \ {"options"} |-> j[f]]
        ELSE [j EXCEPT !.options = JsonArray(q.options)]

\* JSON.parse(JSON.stringify(test))
JsonTest(test) ==
    [test EXCEPT !.questions = [i \in DOMAIN test.questions |-> JsonQuestion(test.questions[i])]]

\* NaN is written as null
JsonNumber(n) == IF n = NaN THEN NullNumber ELSE n

-----------------------------------------------------------------------------
(* Identifiers, request paths and files *)

MaxClock == 1
Slots == {"r1", "r2"}
\* Math.random().toString(36).substring(7): two generations may draw the same text
RandSuffixes == {0, 1}

NoId == [ts |-> 0 - 1, rnd |-> 0 - 1]
TestId(ts, rnd) == [ts |-> ts, rnd |-> rnd]
AllIds == {TestId(t, n) : t \in 0 .. MaxClock, n \in RandSuffixes}

\* `${session.testId}-${Date.now()}`
SessionKey(id, now) == [id |-> id, ts |-> now]

\* the text of a request path after '/api/test/': <dir><id>[-<ms>]<tail>
Target(dir, id, ms, tail) == [dir |-> dir, id |-> id, ms |-> ms, tail |-> tail]
NoTarget == Target("", NoId, 0 - 1, "")

NoTest ==
    [id |-> NoId, certificationName |-> "", certificationUrl |-> "", generatedAt |-> 0 - 1,
     questionCount |-> 0, questions |-> <<>>]

NoScore == [score |-> 0, total |-> 0, correct |-> 0, incorrect |-> 0, details |-> <<>>]

NoAnswers == [present |-> FALSE, map |-> <<>>]

\* writeFile opens the file truncated, writes, and closes: until it is done the file
\* holds a prefix of the text
Partial(doc) == [doc |-> doc, complete |-> FALSE]
Complete(doc) == [doc |-> doc, complete |-> TRUE]

Put(f, k, v) == [x \in DOMAIN f \cup {k} |-> IF x = k THEN v ELSE f[x]]

\* existsSync(join(storageDir, `${testId}.json`))
FileExists(testId, tf, sf) ==
    /\ testId.tail = ""
    /\ \/ testId.dir = "" /\ testId.ms = 0 - 1 /\ testId.id \in DOMAIN tf
       \/ testId.dir = "sessions/" /\ SessionKey(testId.id, testId.ms) \in DOMAIN sf

FileAt(testId, tf, sf) ==
    IF testId.dir = "" THEN tf[testId.id] ELSE sf[SessionKey(testId.id, testId.ms)]

\* TestStorage.loadTest in one piece: null when the file is missing or does not parse
NotFound == [found |-> FALSE, doc |-> NoTest]
loadTest(testId, tf, sf) ==
    IF ~FileExists(testId, tf, sf) THEN NotFound
    ELSE IF ~FileAt(testId, tf, sf).complete THEN NotFound
    ELSE [found |-> TRUE, doc |-> FileAt(testId, tf, sf).doc]

-----------------------------------------------------------------------------
(* The inputs the model draws *)

StudyGuideUrls == {"", "https://learn.microsoft.com/az-900"}
CertificationNames == {"", "AZ-900"}
\* questionCount || 40: 1 asks for no single-answer question
QuestionCounts == {1, 40}

Options4 == <<SA, SB, SC, SD>>
Question1 == <<113, 49>>
Explanation1 == <<101, 49>>

ReplyRecord(correctAnswer, hasCorrectAnswers, correctAnswers) ==
    [question |-> Question1, hasOptions |-> TRUE, options |-> Options4,
     correctAnswer |-> correctAnswer, hasCorrectAnswers |-> hasCorrectAnswers,
     correctAnswers |-> correctAnswers, explanation |-> Explanation1]

McGood == ReplyRecord(1, FALSE, <<>>)
McOutOfRange == ReplyRecord(4, FALSE, <<>>)
MsGood == ReplyRecord(0 - 1, TRUE, <<0, 2>>)
MsOne == ReplyRecord(0 - 1, TRUE, <<3>>)

MultipleChoiceReplies ==
    {CallFailed,
     Content(<<Prose>>),
     Content(<<Prose, LB, Rec(McGood), RB, Prose>>),
     Content(<<LB, Rec(McOutOfRange), RB>>)}

MultipleSelectReplies ==
    {Content(<<>>),
     Content(<<LB, RB>>),
     Content(<<LB, Rec(MsGood), RB>>),
     Content(<<LB, Rec(MsOne), RB>>),
     Content(<<LB, Rec(McGood), RB>>)}

\* the answers a client submits for a test it was served: the stored answers, in
\* reverse order, for any of the questions, or no answers property at all
AnswerMaps(test) ==
    LET ids == {test.questions[i].id : i \in DOMAIN test.questions}
        answerTo(qid) ==
            LET q == CHOOSE i \in DOMAIN test.questions : test.questions[i].id = qid
                c == test.questions[q].correctAnswers
            IN  [k \in DOMAIN c |-> c[Len(c) + 1 - k]]
    IN  {NoAnswers} \cup {[present |-> TRUE, map |-> [qid \in D |-> answerTo(qid)]] : D \in SUBSET ids}

-----------------------------------------------------------------------------
(* Requests and responses *)

NoResponse ==
    [handler |-> "", target |-> NoTarget, status |-> 0, error |-> "", sawPartial |-> FALSE,
     test |-> NoTest, score |-> NoScore, sessionId |-> SessionKey(NoId, 0 - 1),
     answers |-> NoAnswers, query |-> Undefined, results |-> <<>>]

Idle ==
    [pc |-> "idle", handler |-> "", target |-> NoTarget, questionCount |-> 0,
     questions |-> <<>>, test |-> NoTest, answers |-> NoAnswers, score |-> NoScore,
     sessionId |-> SessionKey(NoId, 0 - 1), filePath |-> SessionKey(NoId, 0 - 1),
     calls |-> <<>>]

\* sendError(new Response(), message, status)
sendError(handler, target, message, status) ==
    [NoResponse EXCEPT !.handler = handler, !.target = target, !.status = status,
                       !.error = message]

\* sendJSON(new Response(), { test })
sendTest(handler, target, test) ==
    [NoResponse EXCEPT !.handler = handler, !.target = target, !.status = 200, !.test = test]

Generating == {r \in Slots : req[r].handler = "generate"}
Submitting == {r \in Slots : req[r].handler = "submit"}

\* the first route of fetch whose condition the request meets
Route(method, target) ==
    IF method = "GET" THEN "getTest"
    ELSE IF method = "GET" /\ target.tail = "/answers" THEN "getAnswers"
    ELSE IF method = "POST" /\ target.tail = "/submit" THEN "submit"
    ELSE "notFound"

\* path.split('/api/test/')[1] of the route, and .replace('/submit', '') of submit
RouteTestId(handler, target) ==
    IF handler = "getTest" THEN target
    ELSE [target EXCEPT !.tail = ""]

\* the test served as stored, no question mapped
TestForTakingUnmapped(test) == test

\* questions.map(q => ({ id, type, question, options }))
TestForTaking(test) ==
    [test EXCEPT !.questions =
        [i \in DOMAIN test.questions |->
            [f \in DOMAIN test.questions[i] \cap {"id", "type", "question", "options"} |->
                test.questions[i][f]]]]

\* the body { test } of the two GET routes
TestBody(handler, test) == IF handler = "getTest" THEN TestForTaking(test) ELSE test

-----------------------------------------------------------------------------
(* POST /api/generate-test: APIRoutes.generateTest, one action per await   *)
(* at which the clock or the files are read or written                     *)

\* a slot of the run that serves no request
Free(r) == r \in env.slots /\ req[r].pc = "idle"

\* the step sends no response
Silent == resp' = NoResponse

\* the handler's answer: the slot is free again
Respond(r, response) ==
    /\ req' = [req EXCEPT ![r] = Idle]
    /\ resp' = response

\* a stage that throws after saving the questions it has so far
FailSavingPartial(r, message) ==
    /\ Respond(r, sendError(req[r].handler, req[r].target, message, 500))
    /\ tests' = Put(tests, TestId(clock, 0),
                    Complete(JsonTest([NoTest EXCEPT !.id = TestId(clock, 0),
                                                     !.questions = req[r].questions])))

\* a stage that throws and is followed by the multi-answer call all the same
FailThenContinue(r, message) ==
    /\ req' = [req EXCEPT ![r].pc = "ms"]
    /\ Silent
    /\ UNCHANGED tests

\* a stage of generateTest throws: nothing was written, and the catch of fetch
\* answers 500 with the error's message
Fail(r, message) ==
    /\ Respond(r, sendError(req[r].handler, req[r].target, message, 500))
    /\ UNCHANGED tests

Goto(r, pc) == req' = [req EXCEPT ![r].pc = pc]

\* the stage after the single-answer stage
AfterMultipleChoice(questionCount) ==
    IF multipleSelectCount(questionCount) > 0 THEN "ms" ELSE "stamp"

\* the first stage of generateQuestions
FirstStage(questionCount) ==
    IF multipleChoiceCount(questionCount) > 0 THEN "mc" ELSE AfterMultipleChoice(questionCount)

\* the body is read and checked; contentExtractor.fetchContent resolves or rejects
GenStart(r) ==
    /\ Free(r)
    /\ Len(genLog) + Cardinality(Generating) < env.maxGen
    /\ \E studyGuideUrl \in StudyGuideUrls, certificationName \in CertificationNames,
          questionCount \in env.questionCounts, fetched \in BOOLEAN :
          IF studyGuideUrl = "" \/ certificationName = ""
          THEN /\ resp' = sendError("generate", NoTarget,
                                    "studyGuideUrl and certificationName are required", 400)
               /\ UNCHANGED req
          ELSE IF ~fetched
          THEN /\ resp' = sendError("generate", NoTarget, "Failed to fetch", 500)
               /\ UNCHANGED req
          ELSE /\ req' = [req EXCEPT ![r] = [Idle EXCEPT !.pc = FirstStage(questionCount),
                                                   !.handler = "generate",
                                                   !.questionCount = questionCount]]
               /\ Silent
    /\ UNCHANGED <<clock, tests, sessions, genLog, subLog, env, sc>>

\* the single-answer completion call resolves or rejects
GenMultipleChoice(r) ==
    /\ req[r].pc = "mc"
    /\ \E reply \in env.multipleChoiceReplies :
          LET got == generateMultipleChoiceQuestions(reply, clock)
          IN  IF got.ok
              THEN /\ req' = [req EXCEPT ![r].questions = got.value,
                                         ![r].calls = Append(@, "mc"),
                                         ![r].pc = AfterMultipleChoice(req[r].questionCount)]
                   /\ Silent
                   /\ UNCHANGED tests
              ELSE Fail(r, got.error)
    /\ UNCHANGED <<clock, sessions, genLog, subLog, env, sc>>

\* the multi-answer completion call resolves or rejects
GenMultipleSelect(r) ==
    /\ req[r].pc = "ms"
    /\ \E reply \in env.multipleSelectReplies :
          LET got == generateMultipleSelectQuestions(reply, clock)
          IN  IF got.ok
              THEN /\ req' = [req EXCEPT ![r].questions = req[r].questions \o got.value,
                                         ![r].calls = Append(@, "ms"),
                                         ![r].pc = "stamp"]
                   /\ Silent
                   /\ UNCHANGED tests
              ELSE Fail(r, got.error)
    /\ UNCHANGED <<clock, sessions, genLog, subLog, env, sc>>

\* const test: PracticeTest = { id: `test-${Date.now()}-${Math.random()...}`, ... }
NewTest(questions, now, rnd) ==
    [id |-> TestId(now, rnd),
     certificationName |-> "AZ-900",
     certificationUrl |-> "https://learn.microsoft.com/az-900",
     generatedAt |-> now,
     questionCount |-> Len(questions),
     questions |-> questions]

\* generateQuestions returns the shuffled questions; the test is made and saveTest called
GenStamp(r) ==
    /\ req[r].pc = "stamp"
    /\ \E js \in ShuffleDraws(Len(req[r].questions)), rnd \in RandSuffixes :
          req' = [req EXCEPT ![r].test = NewTest(shuffleArray(req[r].questions, js), clock, rnd),
                             ![r].questions = <<>>,
                             ![r].pc = "write"]
    /\ UNCHANGED <<clock, tests, sessions, genLog, subLog, env, sc>> /\ Silent

\* TestStorage.saveTest: writeFile has opened `${test.id}.json`
saveTestBegin(tf, test) == Put(tf, test.id, Partial(JsonTest(test)))

\* TestStorage.saveTest: writeFile is done
saveTestEnd(tf, test) == Put(tf, test.id, Complete(JsonTest(test)))

GenWriteBegin(r) ==
    /\ req[r].pc = "write"
    /\ tests' = saveTestBegin(tests, req[r].test)
    /\ Goto(r, "writing")
    /\ UNCHANGED <<clock, sessions, genLog, subLog, env, sc>> /\ Silent

\* generateTest returns the test, sent as { test }
GenWriteEnd(r) ==
    /\ req[r].pc = "writing"
    /\ tests' = saveTestEnd(tests, req[r].test)
    /\ genLog' = Append(genLog, req[r].test.id)
    /\ Respond(r, sendTest("generate", NoTarget, JsonTest(req[r].test)))
    /\ UNCHANGED <<clock, sessions, subLog, env, sc>>

-----------------------------------------------------------------------------
(* GET /api/test/..., served whole by the first GET route.  loadTest tests *)
(* existsSync and then awaits readFile; no file is ever removed, so what   *)
(* it returns is what one look at the file returns, at one of the two      *)
(* moments: the load is one step.                                          *)

GetTargets ==
    {Target("", id, 0 - 1, tail) : id \in AllIds, tail \in {"", "/answers"}}
    \cup {Target("sessions/", k.id, k.ts, "") : k \in DOMAIN sessions}

\* the file loadTest reads is there and half written
ReadsPartial(testId) ==
    FileExists(testId, tests, sessions) /\ ~FileAt(testId, tests, sessions).complete

GetResponse(handler, target) ==
    LET testId == RouteTestId(handler, target)
        test == loadTest(testId, tests, sessions)
    IN  IF ~test.found
        THEN [sendError(handler, target, "Test not found", 404)
                 EXCEPT !.sawPartial = ReadsPartial(testId)]
        ELSE IF testId.dir # ""
        \* a session document: test.questions is undefined
        THEN sendError(handler, target, "TypeError", 500)
        ELSE sendTest(handler, target, TestBody(handler, test.doc))

GetTest ==
    /\ \E target \in GetTargets : resp' = GetResponse(Route("GET", target), target)
    /\ UNCHANGED <<clock, tests, sessions, req, genLog, subLog, env, sc>>

-----------------------------------------------------------------------------
(* POST /api/test/{id}/submit *)

SubmitTargets ==
    {Target("", id, 0 - 1, "/submit") : id \in AllIds}
    \cup {Target("sessions/", k.id, k.ts, "/submit") : k \in DOMAIN sessions}

\* answers[question.id] of an answers that is undefined throws
ScoreThrows(test, answers) == ~answers.present /\ test.questions # <<>>

\* the body is read, getTest -> loadTest, calculateScore; the import is awaited
SubStart(r) ==
    /\ Free(r)
    /\ Len(subLog) + Cardinality(Submitting) < env.maxSub
    /\ \E target \in SubmitTargets :
          LET handler == Route("POST", target)
              testId == RouteTestId(handler, target)
              test == loadTest(testId, tests, sessions)
          IN  IF ~test.found
              THEN /\ resp' = [sendError(handler, target, "Test not found", 404)
                                  EXCEPT !.sawPartial = ReadsPartial(testId)]
                   /\ UNCHANGED req
              ELSE IF testId.dir # ""
              THEN /\ resp' = sendError(handler, target, "TypeError", 500)
                   /\ UNCHANGED req
              ELSE \E answers \in AnswerMaps(test.doc) :
                      IF ScoreThrows(test.doc, answers)
                      THEN /\ resp' = sendError(handler, target, "TypeError", 500)
                           /\ UNCHANGED req
                      ELSE /\ req' = [req EXCEPT ![r] =
                                        [Idle EXCEPT !.pc = "sid", !.handler = handler,
                                                     !.target = target, !.answers = answers,
                                                     !.score = calculateScore(test.doc, answers.map)]]
                           /\ Silent
    /\ UNCHANGED <<clock, tests, sessions, genLog, subLog, env, sc>>

\* const sessionId = `session-${testId}-${Date.now()}`; saveSession is called
SubSessionId(r) ==
    /\ req[r].pc = "sid"
    /\ req' = [req EXCEPT ![r].sessionId = SessionKey(req[r].target.id, clock),
                          ![r].pc = "swrite"]
    /\ UNCHANGED <<clock, tests, sessions, genLog, subLog, env, sc>> /\ Silent

\* the session document of the submit route
SessionDoc(r) ==
    [testId |-> req[r].target.id,
     answers |-> req[r].answers,
     startedAt |-> req[r].sessionId.ts,
     completedAt |-> req[r].sessionId.ts,
     score |-> JsonNumber(req[r].score.score)]

\* TestStorage.saveSession: writeFile has opened `${session.testId}-${Date.now()}.json`
SubWriteBegin(r) ==
    /\ req[r].pc = "swrite"
    /\ LET key == SessionKey(req[r].target.id, clock)
       IN  /\ sessions' = Put(sessions, key, Partial(SessionDoc(r)))
           /\ req' = [req EXCEPT ![r].pc = "swriting", ![r].filePath = key]
    /\ UNCHANGED <<clock, tests, genLog, subLog, env, sc>> /\ Silent

\* TestStorage.saveSession: writeFile is done; the route answers { score, sessionId, answers }
SubWriteEnd(r) ==
    /\ req[r].pc = "swriting"
    /\ sessions' = Put(sessions, req[r].filePath, Complete(SessionDoc(r)))
    /\ subLog' = Append(subLog, [sessionId |-> req[r].sessionId, filePath |-> req[r].filePath])
    /\ Respond(r, [NoResponse EXCEPT !.handler = "submit", !.target = req[r].target,
                                     !.status = 200,
                                     !.score = [req[r].score EXCEPT !.score = JsonNumber(@)],
                                     !.sessionId = req[r].sessionId,
                                     !.answers = req[r].answers])
    /\ UNCHANGED <<clock, tests, genLog, env, sc>>

-----------------------------------------------------------------------------
(* The server *)

\* a millisecond passes
Tick ==
    /\ clock < MaxClock
    /\ clock' = clock + 1
    /\ UNCHANGED <<tests, sessions, req, genLog, subLog, env, sc>> /\ Silent

\* one generateTest and one submit at a time, every kind of reply
MaxTests == 1
MaxSubmits == 1
Sequential ==
    [slots |-> {"r1"}, maxGen |-> MaxTests, maxSub |-> MaxSubmits,
     questionCounts |-> QuestionCounts,
     multipleChoiceReplies |-> MultipleChoiceReplies,
     multipleSelectReplies |-> MultipleSelectReplies]

\* two requests at a time, replies as asked for or none
MaxRaceTests == 2
MaxRaceSubmits == 1
Racing ==
    [slots |-> Slots, maxGen |-> MaxRaceTests, maxSub |-> MaxRaceSubmits,
     questionCounts |-> {40},
     multipleChoiceReplies |-> {Content(<<Prose>>), Content(<<LB, Rec(McGood), RB>>)},
     multipleSelectReplies |-> {Content(<<LB, Rec(MsGood), RB>>)}]

\* two submits at a time
MaxAttempts == 2
Resubmitting == [Racing EXCEPT !.maxGen = 1, !.maxSub = MaxAttempts]

\* one generateTest at a time, for every small questionCount
MaxCount == 10
Counting ==
    [slots |-> {"r1"}, maxGen |-> 1, maxSub |-> 1,
     questionCounts |-> 1 .. MaxCount,
     multipleChoiceReplies |-> {CallFailed, Content(<<LB, Rec(McGood), RB>>)},
     multipleSelectReplies |-> {CallFailed, Content(<<LB, Rec(MsGood), RB>>)}]

NoInput == [test |-> NoTest, answers |-> <<>>, result |-> NoScore, done |-> FALSE]

Start(e) ==
    /\ clock = 0
    /\ tests = <<>>
    /\ sessions = <<>>
    /\ req = [r \in Slots |-> Idle]
    /\ genLog = <<>>
    /\ subLog = <<>>
    /\ resp = NoResponse
    /\ env = e
    /\ sc = NoInput

Init == Start(Sequential)

InitRace == Start(Racing)

InitResubmit == Start(Resubmitting)

Next ==
    \/ Tick
    \/ GetTest
    \/ \E r \in Slots :
          \/ GenStart(r)
          \/ GenMultipleChoice(r)
          \/ GenMultipleSelect(r)
          \/ GenStamp(r)
          \/ GenWriteBegin(r)
          \/ GenWriteEnd(r)
          \/ SubStart(r)
          \/ SubSessionId(r)
          \/ SubWriteBegin(r)
          \/ SubWriteEnd(r)

\* the server with one generateTest and one submit in flight at a time
Spec == Init /\ [][Next]_vars

\* the server with two requests in flight at a time
SpecRace == InitRace /\ [][Next]_vars

\* the server with two submits in flight at a time
SpecResubmit == InitResubmit /\ [][Next]_vars

InitCounts == Start(Counting)

\* the server asked for tests of every small number of questions
SpecCounts == InitCounts /\ [][Next]_vars

-----------------------------------------------------------------------------
(* The start of the server and GET /api/search *)

\* which of BING_SEARCH_API_KEY, AZURE_OPENAI_ENDPOINT and AZURE_OPENAI_API_KEY are set
Configs == [bing : BOOLEAN, endpoint : BOOLEAN, key : BOOLEAN]

\* the check of the environment at the top of the server module
MissingRequired(config) == ~config.bing \/ ~config.endpoint \/ ~config.key

\* this.bingSearch = bingApiKey ? new BingSearchService(bingApiKey) : null
HasBingSearch(config) == config.bing

\* url.searchParams.get('q'): null, the empty text, or a query
Queries == {Null, <<>>, <<97, 122>>}

Page(name, url, snippet) == [name |-> name, url |-> url, snippet |-> snippet]
PageLearn == Page(<<65, 90>>, <<117, 49>>, Undefined)

\* what the search provider answers: a failure, or result.webPages?.value
SearchFailed == [failed |-> TRUE, pages |-> <<>>]
Pages(pages) == [failed |-> FALSE, pages |-> pages]
SearchReplies == {SearchFailed, Pages(<<>>), Pages(<<PageLearn>>)}

\* x || ''
OrEmpty(x) == IF x \in {Undefined, Null} THEN <<>> ELSE x

\* BingSearchService.searchCertification and the map of searchCertifications
searchCertification(reply) ==
    IF reply.failed THEN Thrown("Failed to search for certification: provider error")
    ELSE Returned([i \in DOMAIN reply.pages |->
                      [title |-> OrEmpty(reply.pages[i].name),
                       url |-> OrEmpty(reply.pages[i].url),
                       snippet |-> OrEmpty(reply.pages[i].snippet)]])

\* APIRoutes.searchCertifications
searchCertifications(config, reply) ==
    IF ~HasBingSearch(config)
    THEN Thrown("Search functionality requires Bing Search API key. Please provide a direct Microsoft Learn URL instead.")
    ELSE searchCertification(reply)

\* the route GET /api/search
SearchResponse(config, query, reply) ==
    IF query \in {Null, <<>>}
    THEN [sendError("search", NoTarget, "Query parameter \"q\" is required", 400)
             EXCEPT !.query = query]
    ELSE LET found == searchCertifications(config, reply)
         IN  IF ~found.ok
             THEN [sendError("search", NoTarget, found.error, 500) EXCEPT !.query = query]
             ELSE [NoResponse EXCEPT !.handler = "search", !.status = 200,
                                     !.query = query, !.results = found.value]

\* the environment of a process about to run the server module
Starting(config) ==
    [slots |-> {"r1"}, maxGen |-> MaxTests, maxSub |-> MaxSubmits,
     questionCounts |-> QuestionCounts,
     multipleChoiceReplies |-> MultipleChoiceReplies,
     multipleSelectReplies |-> MultipleSelectReplies,
     config |-> config, server |-> "starting"]

InitStartup == \E config \in Configs : Start(Starting(config))

\* the module runs: process.exit(1) when a required variable is missing, else
\* new APIRoutes(...) and Bun.serve(...)
StartServer ==
    /\ env.server = "starting"
    /\ env' = [env EXCEPT !.server = IF MissingRequired(env.config) THEN "exited"
                                     ELSE "running"]
    /\ UNCHANGED <<clock, tests, sessions, req, genLog, subLog, sc>> /\ Silent

\* GET /api/search of a running server
Search ==
    /\ env.server = "running"
    /\ \E query \in Queries, reply \in SearchReplies :
          resp' = SearchResponse(env.config, query, reply)
    /\ UNCHANGED <<clock, tests, sessions, req, genLog, subLog, env, sc>>

\* GET /api/search when no process listens: the connection is refused and the client
\* has no response
SearchRefused ==
    /\ env.server = "exited"
    /\ \E query \in Queries :
          resp' = [NoResponse EXCEPT !.handler = "search", !.query = query,
                                     !.error = "ECONNREFUSED"]
    /\ UNCHANGED <<clock, tests, sessions, req, genLog, subLog, env, sc>>

\* the routes of the running server
Serve == env.server = "running" /\ Next

NextStartup == StartServer \/ Search \/ SearchRefused \/ Serve

\* the server from the start of its process, for every configuration
SpecStartup == InitStartup /\ [][NextStartup]_vars

-----------------------------------------------------------------------------
(* calculateScore on drawn inputs *)

MaxScoreQuestions == 2

\* correctAnswers lists as stored: strings and, for an answer index that named no
\* option, null
StoredAnswerLists == {<<SA>>, <<SA, SB>>, <<SB, SA>>, <<SAB>>, <<Null>>}

\* submitted lists of strings
SubmittedLists == {<<>>, <<SA>>, <<SB>>, <<SA, SA>>, <<SA, SB>>, <<SB, SA>>, <<SAB>>}

ScoreQuestion(i, correctAnswers) ==
    [id |-> QuestionId("mc", 0, i - 1), type |-> "multiple-choice", question |-> Question1,
     options |-> <<SA, SB, SAB, SC>>, correctAnswers |-> correctAnswers,
     explanation |-> Explanation1]

ScoreTests ==
    UNION {{[NoTest EXCEPT !.id = TestId(0, 0), !.questionCount = n,
                           !.questions = [i \in 1 .. n |-> ScoreQuestion(i, c[i])]] :
               c \in [1 .. n -> StoredAnswerLists]} : n \in 0 .. MaxScoreQuestions}

ScoreAnswers(test) ==
    UNION {[D -> SubmittedLists] :
              D \in SUBSET {test.questions[i].id : i \in DOMAIN test.questions}}

InitScore ==
    /\ clock = 0
    /\ tests = <<>>
    /\ sessions = <<>>
    /\ req = [r \in Slots |-> Idle]
    /\ genLog = <<>>
    /\ subLog = <<>>
    /\ resp = NoResponse
    /\ env = Sequential
    /\ \E test \in ScoreTests : \E answers \in ScoreAnswers(test) :
          sc = [test |-> test, answers |-> answers, result |-> NoScore, done |-> FALSE]

Score ==
    /\ ~sc.done
    /\ sc' = [sc EXCEPT !.result = calculateScore(sc.test, sc.answers), !.done = TRUE]
    /\ UNCHANGED <<clock, tests, sessions, req, genLog, subLog, resp, env>>

NextScore == Score

SpecScore == InitScore /\ [][NextScore]_vars

-----------------------------------------------------------------------------
(* calculateScore on a test and a submission, and on the same two with     *)
(* the elements of the lists in another order                              *)

MaxListLen == 2

\* what a JSON array of answers can hold: strings, and null (also what an answer
\* index that names no option is stored as)
ListElements == {SA, SB, NullText, Null}

AnswerLists == UNION {[1 .. n -> ListElements] : n \in 0 .. MaxListLen}

Orders(n) == {p \in [1 .. n -> 1 .. n] : \A i, j \in 1 .. n : i # j => p[i] # p[j]}

Reordered(list, p) == [i \in DOMAIN list |-> list[p[i]]]

OneQuestionTest(correctAnswers) ==
    [NoTest EXCEPT !.id = TestId(0, 0), !.questionCount = 1,
                   !.questions = <<ScoreQuestion(1, correctAnswers)>>]

OneAnswer(userAnswers) == [qid \in {QuestionId("mc", 0, 0)} |-> userAnswers]

InitReorder ==
    /\ clock = 0
    /\ tests = <<>>
    /\ sessions = <<>>
    /\ req = [r \in Slots |-> Idle]
    /\ genLog = <<>>
    /\ subLog = <<>>
    /\ resp = NoResponse
    /\ env = Sequential
    /\ \E c \in AnswerLists, u \in AnswerLists :
          \E p \in Orders(Len(c)), q \in Orders(Len(u)) :
             sc = [test |-> OneQuestionTest(c), answers |-> OneAnswer(u),
                   result |-> NoScore, done |-> FALSE,
                   reordered |-> [test |-> OneQuestionTest(Reordered(c, p)),
                                  answers |-> OneAnswer(Reordered(u, q)),
                                  result |-> NoScore]]

ScoreBoth ==
    /\ ~sc.done
    /\ sc' = [sc EXCEPT !.result = calculateScore(sc.test, sc.answers),
                        !.reordered.result =
                            calculateScore(sc.reordered.test, sc.reordered.answers),
                        !.done = TRUE]
    /\ UNCHANGED <<clock, tests, sessions, req, genLog, subLog, resp, env>>

NextReorder == ScoreBoth

SpecReorder == InitReorder /\ [][NextReorder]_vars

-----------------------------------------------------------------------------
(* calculateScore on tests of up to the default number of questions, any   *)
(* number of them answered as stored                                       *)

\* questionCount || 40
MaxQuestions == 40

TallyTest(n) ==
    [NoTest EXCEPT !.id = TestId(0, 0), !.questionCount = n,
                   !.questions = [i \in 1 .. n |-> ScoreQuestion(i, <<SA>>)]]

\* the first k questions answered as stored, the others not answered
TallyAnswers(k) == [qid \in {QuestionId("mc", 0, i - 1) : i \in 1 .. k} |-> <<SA>>]

InitTally ==
    /\ clock = 0
    /\ tests = <<>>
    /\ sessions = <<>>
    /\ req = [r \in Slots |-> Idle]
    /\ genLog = <<>>
    /\ subLog = <<>>
    /\ resp = NoResponse
    /\ env = Sequential
    /\ \E n \in 0 .. MaxQuestions : \E k \in 0 .. n :
          sc = [test |-> TallyTest(n), answers |-> TallyAnswers(k),
                result |-> NoScore, done |-> FALSE]

Tally ==
    /\ ~sc.done
    /\ sc' = [sc EXCEPT !.result = calculateScore(sc.test, sc.answers), !.done = TRUE]
    /\ UNCHANGED <<clock, tests, sessions, req, genLog, subLog, resp, env>>

NextTally == Tally

SpecTally == InitTally /\ [][NextTally]_vars

-----------------------------------------------------------------------------
(* The parsing of a reply made of prose, an array of records, and prose *)

MaxProse == 2

\* what prose is made of: text without brackets, and brackets
ProseTokens == {Prose, LB, RB}

\* prose that holds no array of its own ("[]")
Proses ==
    {p \in UNION {[1 .. n -> ProseTokens] : n \in 0 .. MaxProse} :
        \A i \in 1 .. (Len(p) - 1) : ~(p[i] = LB /\ p[i + 1] = RB)}

RecordLists == {<<>>, <<McGood>>, <<McGood, MsGood>>}

ArrayOf(records) == <<LB>> \o [i \in DOMAIN records |-> Rec(records[i])] \o <<RB>>

InitParse ==
    /\ clock = 0
    /\ tests = <<>>
    /\ sessions = <<>>
    /\ req = [r \in Slots |-> Idle]
    /\ genLog = <<>>
    /\ subLog = <<>>
    /\ resp = NoResponse
    /\ env = Sequential
    /\ \E before \in Proses, records \in RecordLists, after \in Proses :
          sc = [before |-> before, records |-> records, after |-> after,
                result |-> Thrown(""), done |-> FALSE]

Parse ==
    /\ ~sc.done
    /\ sc' = [sc EXCEPT !.result = ParseReply(sc.before \o ArrayOf(sc.records) \o sc.after),
                        !.done = TRUE]
    /\ UNCHANGED <<clock, tests, sessions, req, genLog, subLog, resp, env>>

NextParse == Parse

SpecParse == InitParse /\ [][NextParse]_vars

-----------------------------------------------------------------------------
(* The page: App with its four screens, TestGenerator's handleGenerate and  *)
(* the replies of the backend to the requests the page has sent.  testData  *)
(* is a record with exactly the properties the object in the code has.      *)

Http == "http"
\* what SearchCertification hands over: a locator, or text the user typed
Locators == {<<Http, "s://learn.microsoft.com/az-900">>, <<"az-900">>}
Titles == {"AZ-900", "Azure Fundamentals"}
TestIds == {"test-1", "test-2"}
ReturnedCounts == {1, 40}
TypedCounts == {10, 40}
ScoresShown == {0, 100}

startsWith(text, prefix) == Len(text) > 0 /\ text[1] = prefix

NoData == [null |-> TRUE]
NoFetch == [kind |-> "none"]
SearchRequest(q, name) == [kind |-> "search", q |-> q, certificationName |-> name]
GenerateRequest(url, name, count) ==
    [kind |-> "generate", studyGuideUrl |-> url, certificationName |-> name,
     questionCount |-> count]

\* /api/search answers with no result, or with results whose first is a study guide
SearchResults ==
    {<<>>, <<[url |-> <<Http, "s://learn.microsoft.com/az-900">>, title |-> "Exam AZ-900"]>>}

\* handleGenerate up to its first await, on the props the mounted TestGenerator got
handleGenerate(s) ==
    LET started == [s EXCEPT !.loading = TRUE, !.error = ""]
    IN  IF "studyGuideUrl" \notin DOMAIN s.testData
        THEN [started EXCEPT !.error = "TypeError", !.loading = FALSE]
        ELSE IF ~startsWith(s.testData.studyGuideUrl, Http)
        THEN [started EXCEPT !.pending =
                 SearchRequest(s.testData.studyGuideUrl, s.testData.certificationName)]
        ELSE [started EXCEPT !.pending =
                 GenerateRequest(s.testData.studyGuideUrl, s.testData.certificationName,
                                 s.questionCount)]

\* TestGenerator is rendered anew: its state starts from the props, its effect runs
Mount(s) ==
    handleGenerate([s EXCEPT !.questionCount = s.testData.questionCount,
                             !.loading = FALSE, !.error = ""])

handleTestGenerated(s, test) == [s EXCEPT !.testData = test, !.state = "taking"]

InitApp ==
    /\ clock = 0
    /\ tests = <<>>
    /\ sessions = <<>>
    /\ req = [r \in Slots |-> Idle]
    /\ genLog = <<>>
    /\ subLog = <<>>
    /\ resp = NoResponse
    /\ env = Sequential
    /\ sc = [state |-> "search", testData |-> NoData, resultsData |-> NoData,
             questionCount |-> 40, loading |-> FALSE, error |-> "",
             pending |-> NoFetch, generatedFrom |-> NoFetch]

Render(next) ==
    /\ sc' = next
    /\ UNCHANGED <<clock, tests, sessions, req, genLog, subLog, resp, env>>

onSelectCertification ==
    /\ sc.state = "search"
    /\ \E url \in Locators : \E name \in Titles :
          Render(Mount([sc EXCEPT !.testData = [id |-> "", certificationName |-> name,
                                              studyGuideUrl |-> url, questionCount |-> 40],
                                !.state = "generating"]))

\* the answer to handleGenerate's search request arrives
SearchAnswered ==
    /\ sc.pending.kind = "search"
    /\ \E results \in SearchResults :
          IF Len(results) > 0
          THEN Render([sc EXCEPT !.pending =
                        GenerateRequest(results[1].url, results[1].title, sc.questionCount)])
          ELSE Render([sc EXCEPT !.pending = NoFetch, !.error = "No study guide found",
                               !.loading = FALSE])

\* the answer to POST /api/generate-test arrives: the test echoes the certification name
GenerateAnswered ==
    /\ sc.pending.kind = "generate"
    /\ \/ \E id \in TestIds : \E count \in ReturnedCounts :
             Render(handleTestGenerated(
                    [sc EXCEPT !.pending = NoFetch, !.generatedFrom = sc.pending],
                    [id |-> id, certificationName |-> sc.pending.certificationName,
                     questionCount |-> count]))
       \/ Render([sc EXCEPT !.pending = NoFetch, !.error = "Failed to generate test",
                          !.loading = FALSE])

setQuestionCount ==
    /\ sc.state = "generating" /\ ~sc.loading
    /\ \E n \in TypedCounts : n # sc.questionCount /\ Render([sc EXCEPT !.questionCount = n])

GenerateClicked ==
    /\ sc.state = "generating" /\ ~sc.loading
    /\ Render(handleGenerate(sc))

GeneratorCancelled ==
    /\ sc.state = "generating" /\ ~sc.loading
    /\ Render([sc EXCEPT !.state = "search"])

\* TestTaking's submit succeeded
handleTestSubmitted ==
    /\ sc.state = "taking"
    /\ \E score \in ScoresShown :
          Render([sc EXCEPT !.resultsData = [testId |-> sc.testData.id, score |-> score],
                          !.state = "results"])

TakingCancelled ==
    /\ sc.state = "taking"
    /\ Render([sc EXCEPT !.state = "search"])

handleNewTest ==
    /\ sc.state = "results"
    /\ Render([sc EXCEPT !.state = "search", !.testData = NoData, !.resultsData = NoData])

handleGenerateAnother ==
    /\ sc.state = "results"
    /\ sc.testData # NoData
    /\ Render(Mount([sc EXCEPT !.state = "generating", !.resultsData = NoData]))

NextApp ==
    \/ onSelectCertification
    \/ SearchAnswered
    \/ GenerateAnswered
    \/ setQuestionCount
    \/ GenerateClicked
    \/ GeneratorCancelled
    \/ handleTestSubmitted
    \/ TakingCancelled
    \/ handleNewTest
    \/ handleGenerateAnother

SpecApp == InitApp /\ [][NextApp]_vars

-----------------------------------------------------------------------------
(* shuffleArray on an array of questions, for every outcome of Math.random; *)
(* a question is named by a number, equal numbers being the same object     *)

MaxShuffle == 4
ShuffleElements == {1, 2, 3}
ShuffleArrays == UNION {[1 .. n -> ShuffleElements] : n \in 0 .. MaxShuffle}

InitShuffle ==
    /\ clock = 0
    /\ tests = <<>>
    /\ sessions = <<>>
    /\ req = [r \in Slots |-> Idle]
    /\ genLog = <<>>
    /\ subLog = <<>>
    /\ resp = NoResponse
    /\ env = Sequential
    /\ \E array \in ShuffleArrays : sc = [array |-> array, result |-> <<>>, done |-> FALSE]

\* return this.shuffleArray(questions): the loop works on the copy [...array]
Shuffle ==
    /\ ~sc.done
    /\ \E js \in ShuffleDraws(Len(sc.array)) :
          sc' = [sc EXCEPT !.result = shuffleArray(sc.array, js), !.done = TRUE]
    /\ UNCHANGED <<clock, tests, sessions, req, genLog, subLog, resp, env>>

NextShuffle == Shuffle

SpecShuffle == InitShuffle /\ [][NextShuffle]_vars

-----------------------------------------------------------------------------
(* BingSearchService.searchRelatedContent: one search per topic of          *)
(* topics.slice(0, limit), each answered by the provider or failing         *)

MaxTopics == 2
MaxLimit == 2
MaxPages == 2
Topic == <<116>>
TopicLists == UNION {[1 .. n -> {Topic}] : n \in 0 .. MaxTopics}
Limits == 0 .. MaxLimit
PageTwo == Page(<<65, 90>>, <<117, 50>>, <<115>>)
PageNoUrl == Page(<<65, 90>>, Undefined, <<115>>)
RelatedPages == {PageLearn, PageTwo, PageNoUrl}
RelatedReplies ==
    {SearchFailed} \cup {Pages(ps) : ps \in UNION {[1 .. n -> RelatedPages] : n \in 0 .. MaxPages}}

\* array.slice(0, end)
SliceTo(list, end) ==
    LET stop == IF end < 0 THEN (IF Len(list) + end > 0 THEN Len(list) + end ELSE 0)
                ELSE IF end < Len(list) THEN end ELSE Len(list)
    IN  SubSeq(list, 1, stop)

\* the inner loop: a page is pushed unless a result already has its url
RECURSIVE PushPages(_, _)
PushPages(allResults, pages) ==
    IF pages = <<>> THEN allResults
    ELSE LET page == Head(pages)
             known == \E i \in DOMAIN allResults : allResults[i].url = page.url
         IN  PushPages(IF known THEN allResults
                       ELSE Append(allResults, [title |-> OrEmpty(page.name),
                                                url |-> OrEmpty(page.url),
                                                snippet |-> OrEmpty(page.snippet)]),
                       Tail(pages))

InitRelated ==
    /\ clock = 0
    /\ tests = <<>>
    /\ sessions = <<>>
    /\ req = [r \in Slots |-> Idle]
    /\ genLog = <<>>
    /\ subLog = <<>>
    /\ resp = NoResponse
    /\ env = Sequential
    /\ \E topics \in TopicLists : \E limit \in Limits :
          sc = [topics |-> topics, limit |-> limit, searched |-> 0,
                allResults |-> <<>>, done |-> FALSE]

\* the search for the next topic resolves or rejects
SearchTopic ==
    /\ ~sc.done
    /\ sc.searched < Len(SliceTo(sc.topics, sc.limit))
    /\ \E reply \in RelatedReplies :
          IF reply.failed
          THEN sc' = [sc EXCEPT !.done = TRUE]
          ELSE sc' = [sc EXCEPT !.allResults = PushPages(@, reply.pages),
                                !.searched = @ + 1]
    /\ UNCHANGED <<clock, tests, sessions, req, genLog, subLog, resp, env>>

\* the loop is over: return allResults
RelatedReturn ==
    /\ ~sc.done
    /\ sc.searched = Len(SliceTo(sc.topics, sc.limit))
    /\ sc' = [sc EXCEPT !.done = TRUE]
    /\ UNCHANGED <<clock, tests, sessions, req, genLog, subLog, resp, env>>

NextRelated == SearchTopic \/ RelatedReturn

SpecRelated == InitRelated /\ [][NextRelated]_vars

-----------------------------------------------------------------------------
(* TestResults: the verdict the results screen shows per question *)

\* array.includes(x)
Includes(list, x) == \E i \in DOMAIN list : list[i] = x

\* const isCorrect = userAnswers.length === question.correctAnswers.length && ...
TestResultsIsCorrect(userAnswers, correctAnswers) ==
    /\ Len(userAnswers) = Len(correctAnswers)
    /\ \A i \in DOMAIN userAnswers : Includes(correctAnswers, userAnswers[i])
    /\ \A i \in DOMAIN correctAnswers : Includes(userAnswers, correctAnswers[i])

-----------------------------------------------------------------------------
(* Properties *)

PlainTarget(id) == Target("", id, 0 - 1, "")

\* C1: calculateScore marks a question correct exactly when the submitted list and the
\* stored correctAnswers are equal as sets
C1_CorrectIffSameSet ==
    sc.done =>
        \A i \in DOMAIN sc.result.details :
            sc.result.details[i].correct
                <=> (Range(sc.result.details[i].userAnswers)
                        = Range(sc.result.details[i].correctAnswers))

\* C2: the response of GET /api/test/{id} for a stored test carries, per question of
\* the stored test, id, type, question and options and nothing else
C2_TakingViewRedacted ==
    \A id \in DOMAIN tests :
        (resp.target = PlainTarget(id) /\ resp.handler = "getTest" /\ resp.status = 200) =>
            /\ Len(resp.test.questions) = Len(tests[id].doc.questions)
            /\ \A i \in DOMAIN resp.test.questions :
                  /\ DOMAIN resp.test.questions[i] \subseteq {"id", "type", "question", "options"}
                  /\ \A f \in DOMAIN resp.test.questions[i] :
                        resp.test.questions[i][f] = tests[id].doc.questions[i][f]

C2_Witness ==
    /\ resp.handler = "getTest"
    /\ resp.status = 200
    /\ resp.target.id \in DOMAIN tests
    /\ Len(resp.test.questions) = 2
    /\ "correctAnswers" \in DOMAIN tests[resp.target.id].doc.questions[1]

\* C3: GET /api/test/{id}/answers for a stored test answers 200 with the test as stored
C3_AnswersUnredacted ==
    \A id \in DOMAIN tests :
        (resp.target = Target("", id, 0 - 1, "/answers") /\ tests[id].complete) =>
            (resp.status = 200 /\ resp.test = tests[id].doc)

\* C4: a generateTest that ends in an error leaves the stored tests as they were, and
\* every stored test was written by a generateTest that had passed every stage
C4_FilesOfWholeGenerations ==
    \A id \in DOMAIN tests :
        \/ \E i \in DOMAIN genLog : genLog[i] = id
        \/ \E r \in Slots : req[r].pc = "writing" /\ req[r].test.id = id

C4_NoPartialWrite ==
    /\ []C4_FilesOfWholeGenerations
    /\ [][(resp'.handler = "generate" /\ resp'.status # 200) => tests' = tests]_vars

C4_Witness ==
    /\ resp.handler = "generate"
    /\ resp.status = 500
    /\ resp.error = "Failed to generate questions: Invalid JSON response from OpenAI"

\* the invariants of a Question
QuestionValid(q) ==
    LET answers == Range(q.correctAnswers)
    IN  /\ answers # {}
        /\ answers \subseteq Range(q.options)
        /\ q.type = "multiple-choice" => Len(q.correctAnswers) = 1
        /\ q.type = "multiple-select" =>
              /\ Cardinality(answers) \in {2, 3}
              /\ Cardinality(answers) < Cardinality(Range(q.options))

\* C5: every question of a test generateQuestions returned keeps the Question invariants
C5_QuestionsValid ==
    \A r \in Slots :
        req[r].pc \in {"write", "writing"} =>
            \A i \in DOMAIN req[r].test.questions : QuestionValid(req[r].test.questions[i])

\* C6: no two completed generations were given the same id
C6_IdsUnique ==
    \A i, j \in DOMAIN genLog : i # j => genLog[i] # genLog[j]

\* C7: once a document is stored under an id, loadTest of that id returns it ever after
C7_StoredTestImmutable ==
    [][\A id \in DOMAIN tests :
          tests[id].complete =>
              loadTest(PlainTarget(id), tests', sessions') = loadTest(PlainTarget(id), tests, sessions)]_vars

\* C8: every completed submit has a session record of its own
C8_SessionPerSubmit ==
    \A id \in AllIds :
        Cardinality({k \in DOMAIN sessions : k.id = id})
            >= Cardinality({i \in DOMAIN subLog : subLog[i].filePath.id = id})

\* C9: no loadTest answers not-found because the file it read was half written
C9_NoPartialRead == ~resp.sawPartial

\* C10: when saveTest(t) is done, loadTest(t.id) returns a value equal to t
C10_RoundTrip ==
    [][\A r \in Slots :
          (req[r].pc = "writing" /\ req'[r].pc = "idle") =>
              loadTest(PlainTarget(req[r].test.id), tests', sessions')
                  = [found |-> TRUE, doc |-> req[r].test]]_vars

\* the ids loadTest can be asked for that name a file of the storage directory or none
LoadIds ==
    {PlainTarget(id) : id \in AllIds}
    \cup {Target("sessions/", k.id, k.ts, "") : k \in DOMAIN sessions}

\* saveTest has stored a test under the id
EverSaved(testId) == testId.dir = "" /\ \E i \in DOMAIN genLog : genLog[i] = testId.id

\* C11: loadTest returns not-found for an id no test was saved under, and only for
\* such ids
C11_NotFoundIffNeverSaved ==
    \A testId \in LoadIds :
        loadTest(testId, tests, sessions).found <=> EverSaved(testId)

\* C12: calculateScore of a stored test and an empty submission map yields correct = 0,
\* incorrect = total and score = 0
C12_EmptySubmissionScoresZero ==
    \A r \in Slots :
        (req[r].pc = "sid" /\ req[r].answers.present /\ DOMAIN req[r].answers.map = {}) =>
            /\ req[r].score.correct = 0
            /\ req[r].score.incorrect = req[r].score.total
            /\ req[r].score.score = 0

\* the submission gives, for every question of the test, exactly its correctAnswers
IsAnswerKey(test, answers) ==
    \A i \in DOMAIN test.questions :
        /\ test.questions[i].id \in DOMAIN answers
        /\ answers[test.questions[i].id] = test.questions[i].correctAnswers

\* C13: calculateScore of a stored test and the submission equal to its answer key
\* yields score = 100
C13_AnswerKeyScoresHundred ==
    \A r \in Slots :
        (/\ req[r].pc = "sid"
         /\ req[r].answers.present
         /\ req[r].target.id \in DOMAIN tests
         /\ IsAnswerKey(tests[req[r].target.id].doc, req[r].answers.map)) =>
            req[r].score.score = 100

\* C14: calculateScore gives the same score, counts and per-question correctness when
\* the elements of a submitted list or of a correctAnswers list are put in another order
C14_OrderInvariant ==
    sc.done =>
        /\ sc.reordered.result.score = sc.result.score
        /\ sc.reordered.result.correct = sc.result.correct
        /\ sc.reordered.result.incorrect = sc.result.incorrect
        /\ \A i \in DOMAIN sc.result.details :
              sc.reordered.result.details[i].correct = sc.result.details[i].correct

\* C15: calculateScore returns total = the number of questions, correct + incorrect =
\* total, and score = correct / total * 100 rounded to the nearest integer, halves up
C15_ScoreRoundedHalfUp ==
    sc.done =>
        /\ sc.result.total = Len(sc.test.questions)
        /\ sc.result.correct + sc.result.incorrect = sc.result.total
        /\ sc.result.total > 0 =>
              /\ 2 * sc.result.total * sc.result.score
                    <= 200 * sc.result.correct + sc.result.total
              /\ 200 * sc.result.correct + sc.result.total
                    < 2 * sc.result.total * (sc.result.score + 1)

\* C16: every session record a submit has persisted holds a score that is an integer
\* from 0 to 100
C16_SessionScoreInRange ==
    \A k \in DOMAIN sessions :
        sessions[k].complete => sessions[k].doc.score \in 0 .. 100

\* C17: calculateScore returns one detail entry per question, in the order of
\* test.questions, and scores a question whose id the submission map lacks as it
\* scores the empty list
C17_DetailPerQuestion ==
    sc.done =>
        /\ Len(sc.result.details) = Len(sc.test.questions)
        /\ \A i \in DOMAIN sc.test.questions :
              LET qid == sc.test.questions[i].id
              IN  /\ sc.result.details[i].questionId = qid
                  /\ qid \notin DOMAIN sc.answers =>
                        /\ sc.result.details[i].userAnswers = <<>>
                        /\ sc.result.details[i]
                              = calculateScore(sc.test, Put(sc.answers, qid, <<>>)).details[i]

C17_Witness ==
    /\ sc.done
    /\ Len(sc.test.questions) = 2
    /\ sc.test.questions[1].id \notin DOMAIN sc.answers
    /\ sc.test.questions[2].id \in DOMAIN sc.answers
    /\ sc.result.details[2].correct
    /\ ~sc.result.details[1].correct

\* C18: a submit for an id with no stored test answers 404 and writes no session
\* record; a submit for a stored id answers 200 with score, sessionId and the answers
\* and has written its session record
C18_SubmitOutcome ==
    [][resp'.handler = "submit" =>
          IF EverSaved(RouteTestId("submit", resp'.target))
          THEN /\ resp'.status = 200
               /\ resp'.sessionId.id = resp'.target.id
               /\ \E r \in Slots :
                     /\ req[r].pc = "swriting"
                     /\ resp'.answers = req[r].answers
                     /\ req[r].filePath \in DOMAIN sessions'
                     /\ sessions'[req[r].filePath].complete
                     /\ DOMAIN sessions' = DOMAIN sessions
          ELSE /\ resp'.status = 404
               /\ sessions' = sessions]_vars

\* C19: with no search key and the other variables set, the server starts (and its
\* generate-test, get-test and submit routes are served)
C19_StartsWithoutSearchKey ==
    (~env.config.bing /\ env.config.endpoint /\ env.config.key) => env.server # "exited"

AllSet == [bing |-> TRUE, endpoint |-> TRUE, key |-> TRUE]

\* C20: where the completion endpoint and key are set, GET /api/search answers 400
\* when q is missing; when search is not configured
\* a 5xx status that is neither the status of a provider failure nor that of a
\* zero-results response; and otherwise 200 with a results list or the provider failure
C20_SearchStatuses ==
    (resp.handler = "search" /\ env.config.endpoint /\ env.config.key) =>
        IF resp.query \in {Null, <<>>} THEN resp.status = 400
        ELSE IF ~env.config.bing
        THEN /\ resp.status \in 500 .. 599
             /\ resp.status # SearchResponse(AllSet, resp.query, SearchFailed).status
             /\ resp.status # SearchResponse(AllSet, resp.query, Pages(<<>>)).status
        ELSE \E reply \in SearchReplies :
                resp = SearchResponse(AllSet, resp.query, reply)

\* the generations in flight
InGeneration(r) == req[r].handler = "generate"

\* C21 (amended): generateQuestions asks for floor(0.6 * n) single-answer and n minus
\* that many multi-answer questions; a sub-batch of count 0 gets no completion call;
\* the multi-answer count is at least 1 for every n >= 1 and it is the single-answer
\* count that is 0, for n = 1 only
C21_SplitFloorRemainder ==
    \A r \in Slots :
        InGeneration(r) =>
            LET n == req[r].questionCount
                single == multipleChoiceCount(n)
                multi == multipleSelectCount(n)
                called == {req[r].calls[i] : i \in DOMAIN req[r].calls}
            IN  /\ 10 * single <= 6 * n
                /\ 6 * n < 10 * (single + 1)
                /\ single + multi = n
                /\ multi >= 1
                /\ single = 0 <=> n = 1
                /\ single = 0 => "mc" \notin called /\ req[r].pc # "mc"
                /\ req[r].pc \in {"stamp", "write", "writing"} =>
                      called = (IF single > 0 THEN {"mc"} ELSE {}) \cup {"ms"}

C21_Witness ==
    \E r \in Slots :
        /\ req[r].pc = "stamp"
        /\ req[r].questionCount = 1
        /\ req[r].calls = <<"ms">>

\* C21 as stated: when a sub-batch has count 0 it is the multi-answer one
C21_OnlyMultiAnswerSkipped ==
    \A r \in Slots :
        InGeneration(r) =>
            LET n == req[r].questionCount
            IN  (multipleChoiceCount(n) = 0 \/ multipleSelectCount(n) = 0) =>
                    (multipleSelectCount(n) = 0 /\ multipleChoiceCount(n) > 0)

\* C22: a reply of prose, an array of records and prose is parsed to exactly that array
C22_ArrayFoundInProse ==
    sc.done => sc.result = Returned(sc.records)

\* C23: when generateTest returns a test, loadTest of its id returns that test, then
\* and at every later point, and its questionCount is the number of its questions
C23_PersistedBeforeReturn ==
    [][/\ \A r \in Slots :
             (req[r].pc = "writing" /\ req'[r].pc = "idle") =>
                 /\ req[r].test.questionCount = Len(req[r].test.questions)
                 /\ loadTest(PlainTarget(req[r].test.id), tests', sessions').found
                 /\ loadTest(PlainTarget(req[r].test.id), tests', sessions').doc = req[r].test
       /\ \A i \in DOMAIN genLog :
             loadTest(PlainTarget(genLog[i]), tests', sessions')
                 = loadTest(PlainTarget(genLog[i]), tests, sessions)]_vars

\* the errors raised in the stages of generateTest: by fetchContent, and in the try
\* blocks of the two completion stages
StageErrors ==
    {"Failed to fetch"}
    \cup {TryMultipleChoice(reply, now).error :
             reply \in {x \in env.multipleChoiceReplies : ~TryMultipleChoice(x, 0).ok},
             now \in 0 .. MaxClock}
    \cup {TryMultipleSelect(reply, now).error :
             reply \in {x \in env.multipleSelectReplies : ~TryMultipleSelect(x, 0).ok},
             now \in 0 .. MaxClock}

C25_GenerateAnotherSameGuide ==
    [][(sc.state = "results" /\ sc'.state = "generating")
          => /\ sc'.pending.kind = "generate"
             /\ sc'.pending.studyGuideUrl = sc.generatedFrom.studyGuideUrl
             /\ sc'.pending.certificationName = sc.generatedFrom.certificationName]_vars

\* C26: one generateQuestions call makes the single-answer completion call at most
\* once and the multi-answer call at most once, the single-answer one first; a call
\* that fails ends the request, so it is not repeated and no further call follows it
C26_CallsOnceInOrder ==
    [][\A r \in Slots :
          /\ req[r].calls \in {<<>>, <<"mc">>, <<"ms">>, <<"mc", "ms">>}
          /\ (req[r].pc = "mc" /\ req'[r] # req[r])
                => \/ req'[r] = Idle /\ resp'.status = 500
                   \/ req'[r].calls = <<"mc">> /\ req'[r].pc \in {"ms", "stamp"}
          /\ (req[r].pc = "ms" /\ req'[r] # req[r])
                => \/ req'[r] = Idle /\ resp'.status = 500
                   \/ req'[r].calls = req[r].calls \o <<"ms">> /\ req'[r].pc = "stamp"
          /\ (req'[r].pc = "mc" /\ req[r].pc # "mc") => req[r].pc = "idle"
          /\ (req'[r].pc = "ms" /\ req[r].pc # "ms")
                => req[r].pc \in {"idle", "mc"} /\ req[r].calls \in {<<>>, <<"mc">>}]_vars

\* both calls of one generateQuestions call were made, in this order
C26_Witness == \E r \in Slots : req[r].calls = <<"mc", "ms">> /\ req[r].pc = "stamp"

Occurrences(list, x) == Cardinality({i \in DOMAIN list : list[i] = x})

\* C27: for every outcome of the random draws shuffleArray returns a permutation of
\* its input (no element dropped, duplicated or altered), and the input array is
\* the same after the call as before it
C27_ShufflePermutes ==
    [][sc'.done
          => /\ Len(sc'.result) = Len(sc.array)
             /\ \A x \in ShuffleElements :
                   Occurrences(sc'.result, x) = Occurrences(sc.array, x)
             /\ sc'.array = sc.array]_vars

\* a shuffle of a longest array that moved elements
C27_Witness ==
    /\ sc.done
    /\ Len(sc.array) = MaxShuffle
    /\ sc.result # sc.array
    /\ sc.result[1] = sc.array[MaxShuffle]

\* C28: what searchRelatedContent(topics, limit) returns has pairwise distinct urls
\* and at most limit entries
C28_RelatedDistinctWithinLimit ==
    sc.done
       => /\ \A i, j \in DOMAIN sc.allResults :
                i # j => sc.allResults[i].url # sc.allResults[j].url
          /\ Len(sc.allResults) <= sc.limit

\* C29: for every question the verdict of the results screen, computed from the test
\* with its correctAnswers and the submitted answers, is the verdict calculateScore
\* gave, so as many questions are shown correct as the reported correct count says
C29_ScreenVerdictAgrees ==
    sc.done =>
        /\ \A i \in DOMAIN sc.test.questions :
              TestResultsIsCorrect(UserAnswersOf(sc.answers, sc.test.questions[i].id),
                                   sc.test.questions[i].correctAnswers)
                 <=> sc.result.details[i].correct
        /\ Cardinality({i \in DOMAIN sc.test.questions :
                           TestResultsIsCorrect(
                               UserAnswersOf(sc.answers, sc.test.questions[i].id),
                               sc.test.questions[i].correctAnswers)})
              = sc.result.correct

\* C30: the sessionId a successful submit returns names the session record the call
\* stored: test id and timestamp are those of the key saveSession wrote under
C30_SessionIdNamesRecord ==
    /\ \A i \in DOMAIN subLog : subLog[i].sessionId = subLog[i].filePath
    /\ (resp.handler = "submit" /\ resp.status = 200) => resp.sessionId \in DOMAIN sessions

====
